---- MODULE Spec2Model ----
(***************************************************************************)
(* Model of langchain_bookbot/app.py: the two arithmetic helpers sum and   *)
(* subtract, the demonstration routine do_some_math, and the module's top  *)
(* level.  Python floats are modelled as a binary floating-point format    *)
(* with IEEE-754 semantics (signed zeros, infinities, NaN, subnormals,     *)
(* round-to-nearest-even, overflow to infinity) whose precision and        *)
(* exponent range are parameters; binary64 is the instance with precision  *)
(* 53.  Execution is modelled statement by statement with a program        *)
(* counter and a one-deep return address for the calls of sum/subtract.    *)
(***************************************************************************)
EXTENDS Integers, Sequences, FiniteSets, TLC

\* Bits of significand of the modelled float format.
Precision == 2
\* Number of binades above the subnormal range.
ExpRange == 2
\* Position of the binary point: a magnitude m stands for m / 2^FracBits.
FracBits == 1
\* Number of calls of do_some_math() a run makes.
MaxCalls == 2

VARIABLES
    pc,       \* line about to execute: "start", "idle", "l8", "l15", "l22" ...
    defined,  \* names bound in the module's namespace
    locals,   \* frame of do_some_math: a, b, c, d
    args,     \* frame of the running sum/subtract: a, b
    fn,       \* function last entered: "sum", "subtract" or "none"
    retTo,    \* where that frame returns to: "idle", "l24" or "l25"
    ret,      \* value returned by the last completed sum/subtract
    result,   \* value returned by the last completed do_some_math
    stdout,   \* lines written to standard output
    calls     \* number of calls of do_some_math started by the caller

vars == <<pc, defined, locals, args, fn, retTo, ret, result, stdout, calls>>

-----------------------------------------------------------------------------
(* Floating-point values *)

Pow2(k) == 2 ^ k

Fin(s, m) == [k |-> "fin", s |-> s, m |-> m]
Inf(s) == [k |-> "inf", s |-> s, m |-> 0]
NaN == [k |-> "nan", s |-> 0, m |-> 0]
\* A local that is not bound yet, and Python's None.
Unbound == [k |-> "unbound", s |-> 0, m |-> 0]
PyNone == [k |-> "None", s |-> 0, m |-> 0]

\* Largest finite magnitude: all significand bits set, largest exponent.
MaxMag == (Pow2(Precision) - 1) * Pow2(ExpRange)

\* The magnitudes the format represents exactly.
Mags == {m * Pow2(e) : m \in 0..(Pow2(Precision) - 1), e \in 0..ExpRange}

Floats == {Fin(s, m) : s \in {0, 1}, m \in Mags} \cup {Inf(0), Inf(1), NaN}

\* The literals 1.0 and 2.0 of do_some_math.
One == Fin(0, Pow2(FracBits))
Two == Fin(0, 2 * Pow2(FracBits))

\* Signed value of a finite float, in units of 2^-FracBits.
SVal(u) == IF u.s = 1 THEN 0 - u.m ELSE u.m

\* Spacing of the representable magnitudes around n.
RECURSIVE Quantum(_, _)
Quantum(n, q) == IF n < Pow2(Precision) * q THEN q ELSE Quantum(n, 2 * q)

\* Round-to-nearest, ties-to-even, of the exact magnitude n; overflow gives inf.
Round(s, n) ==
    LET q == Quantum(n, 1)
        lo == (n \div q) * q
        rem == n - lo
        r == IF 2 * rem < q THEN lo
             ELSE IF 2 * rem > q THEN lo + q
             ELSE IF (n \div q) % 2 = 0 THEN lo ELSE lo + q
    IN IF r > MaxMag THEN Inf(s) ELSE Fin(s, r)

\* Unary minus: flips the sign, of zeros and infinities too; NaN stays NaN.
Neg(u) == IF u.k = "nan" THEN NaN ELSE [u EXCEPT !.s = 1 - u.s]

\* float.__add__
FAdd(u, v) ==
    IF u.k = "nan" \/ v.k = "nan" THEN NaN
    ELSE IF u.k = "inf" THEN (IF v.k = "inf" /\ v.s # u.s THEN NaN ELSE u)
    ELSE IF v.k = "inf" THEN v
    ELSE LET n == SVal(u) + SVal(v)
         IN IF n = 0 THEN (IF u.s = 1 /\ v.s = 1 THEN Fin(1, 0) ELSE Fin(0, 0))
            ELSE IF n < 0 THEN Round(1, 0 - n) ELSE Round(0, n)

\* float.__sub__: x - y is x + (-y)
FSub(u, v) == FAdd(u, Neg(v))

\* float.__eq__: NaN equals nothing, the two zeros are equal.
PyEq(u, v) ==
    /\ u.k # "nan"
    /\ v.k # "nan"
    /\ \/ u = v
       \/ u.k = "fin" /\ v.k = "fin" /\ u.m = 0 /\ v.m = 0

IsFinite(u) == u.k = "fin"

-----------------------------------------------------------------------------
(* String rendering of a float: repr(float), as used by the f-string *)

DigitChars == <<"0", "1", "2", "3", "4", "5", "6", "7", "8", "9">>
Digit(i) == DigitChars[i + 1]

RECURSIVE IntStr(_)
IntStr(n) == IF n < 10 THEN Digit(n) ELSE IntStr(n \div 10) \o Digit(n % 10)

\* The w decimal digits of f, zero-padded on the left.
RECURSIVE FracDigits(_, _)
FracDigits(f, w) == IF w = 0 THEN "" ELSE FracDigits(f \div 10, w - 1) \o Digit(f % 10)

\* The same with trailing zeros dropped, one digit kept.
RECURSIVE FracStr(_, _)
FracStr(f, w) ==
    IF w > 1 /\ f % 10 = 0 THEN FracStr(f \div 10, w - 1) ELSE FracDigits(f, w)

\* repr of a float: sign, integer part, point, fraction (at least one digit).
\* Every finite value of the format lies in [1e-4, 1e16), where repr uses
\* positional notation, and has a short exact decimal expansion.
Repr(u) ==
    IF u.k = "nan" THEN "nan"
    ELSE IF u.k = "inf" THEN (IF u.s = 1 THEN "-inf" ELSE "inf")
    ELSE LET ip == u.m \div Pow2(FracBits)
             fp == u.m % Pow2(FracBits)
             sign == IF u.s = 1 THEN "-" ELSE ""
         IN sign \o IntStr(ip) \o "." \o
            (IF FracBits = 0 THEN "0" ELSE FracStr(fp * (5 ^ FracBits), FracBits))

-----------------------------------------------------------------------------
(* The functions of app.py *)

\* Faulty variants of sum: the wrong operator, the wrong operand.
sum_minus(a, b) == FSub(a, b)
sum_first_twice(a, b) == FAdd(a, a)

\* def sum(a, b): return a + b
sum(a, b) == FAdd(a, b)

\* Faulty variants of subtract: operands swapped, the wrong operator.
subtract_swapped(a, b) == FSub(b, a)
subtract_plus(a, b) == FAdd(a, b)

\* def subtract(a, b): return a - b
subtract(a, b) == FSub(a, b)

\* Faulty variant of the f-string: the two fields exchanged.
Format_swapped(c, d) == "Sum: " \o Repr(d) \o ", Difference: " \o Repr(c)

\* The f-string of line 26.
Format(c, d) == "Sum: " \o Repr(c) \o ", Difference: " \o Repr(d)

\* Faulty variant of print: the line is written twice.
print_twice(out, text) == Append(Append(out, text), text)

\* print(text): one line appended to standard output.
print(out, text) == Append(out, text)

NoLocals == [a |-> Unbound, b |-> Unbound, c |-> Unbound, d |-> Unbound]
NoArgs == [a |-> Unbound, b |-> Unbound]

\* Names the module's top level binds: the import and the three defs.
ModuleNames == {"os", "sum", "subtract", "do_some_math"}

\* Faulty variant of the top level: it ends with a call of do_some_math().
AfterLoad_runs == "l22"

\* Where control is once the top level has run: no call is made there.
AfterLoad == "idle"

-----------------------------------------------------------------------------
(* State machine *)

Init ==
    /\ pc = "start"
    /\ defined = {}
    /\ locals = NoLocals
    /\ args = NoArgs
    /\ fn = "none"
    /\ retTo = "idle"
    /\ ret = Unbound
    /\ result = Unbound
    /\ stdout = <<>>
    /\ calls = 0

\* Lines 1-26 at top level: import os and three function definitions.
LoadModule ==
    /\ pc = "start"
    /\ defined' = ModuleNames
    /\ pc' = AfterLoad
    /\ UNCHANGED <<locals, args, fn, retTo, ret, result, stdout, calls>>

\* A caller invokes sum(p, q): a frame is made and control enters line 8.
Call_sum(p, q) ==
    /\ pc = "idle"
    /\ "sum" \in defined
    /\ args' = [a |-> p, b |-> q]
    /\ fn' = "sum"
    /\ retTo' = "idle"
    /\ ret' = Unbound
    /\ pc' = "l8"
    /\ UNCHANGED <<defined, locals, result, stdout, calls>>

\* A caller invokes subtract(p, q): control enters line 15.
Call_subtract(p, q) ==
    /\ pc = "idle"
    /\ "subtract" \in defined
    /\ args' = [a |-> p, b |-> q]
    /\ fn' = "subtract"
    /\ retTo' = "idle"
    /\ ret' = Unbound
    /\ pc' = "l15"
    /\ UNCHANGED <<defined, locals, result, stdout, calls>>

\* Faulty variant of line 8: sum also writes a line to standard output.
Return_sum_printing ==
    /\ pc = "l8"
    /\ ret' = sum(args.a, args.b)
    /\ stdout' = Append(stdout, Repr(sum(args.a, args.b)))
    /\ args' = NoArgs
    /\ pc' = IF retTo = "idle" THEN "idle" ELSE "l24_ret"
    /\ UNCHANGED <<defined, locals, fn, retTo, result, calls>>

\* Line 8: return a + b; the frame is dropped.
Return_sum ==
    /\ pc = "l8"
    /\ ret' = sum(args.a, args.b)
    /\ args' = NoArgs
    /\ pc' = IF retTo = "idle" THEN "idle" ELSE "l24_ret"
    /\ UNCHANGED <<defined, locals, fn, retTo, result, stdout, calls>>

\* Line 15: return a - b; the frame is dropped.
Return_subtract ==
    /\ pc = "l15"
    /\ ret' = subtract(args.a, args.b)
    /\ args' = NoArgs
    /\ pc' = IF retTo = "idle" THEN "idle" ELSE "l25_ret"
    /\ UNCHANGED <<defined, locals, fn, retTo, result, stdout, calls>>

\* A caller invokes do_some_math(): a fresh frame, control enters line 22.
Call_do_some_math ==
    /\ pc = "idle"
    /\ "do_some_math" \in defined
    /\ calls < MaxCalls
    /\ calls' = calls + 1
    /\ locals' = NoLocals
    /\ result' = Unbound
    /\ pc' = "l22"
    /\ UNCHANGED <<defined, args, fn, retTo, ret, stdout>>

\* Line 22: a = 1.0
L22 ==
    /\ pc = "l22"
    /\ locals' = [locals EXCEPT !.a = One]
    /\ pc' = "l23"
    /\ UNCHANGED <<defined, args, fn, retTo, ret, result, stdout, calls>>

\* Line 23: b = 2.0
L23 ==
    /\ pc = "l23"
    /\ locals' = [locals EXCEPT !.b = Two]
    /\ pc' = "l24"
    /\ UNCHANGED <<defined, args, fn, retTo, ret, result, stdout, calls>>

\* Line 24, the call: sum(a, b)
L24_call ==
    /\ pc = "l24"
    /\ args' = [a |-> locals.a, b |-> locals.b]
    /\ fn' = "sum"
    /\ retTo' = "l24"
    /\ ret' = Unbound
    /\ pc' = "l8"
    /\ UNCHANGED <<defined, locals, result, stdout, calls>>

\* Line 24, the assignment: c = <returned value>
L24_assign ==
    /\ pc = "l24_ret"
    /\ locals' = [locals EXCEPT !.c = ret]
    /\ pc' = "l25"
    /\ UNCHANGED <<defined, args, fn, retTo, ret, result, stdout, calls>>

\* Faulty variant of line 25: subtract(b, a)
L25_call_swapped ==
    /\ pc = "l25"
    /\ args' = [a |-> locals.b, b |-> locals.a]
    /\ fn' = "subtract"
    /\ retTo' = "l25"
    /\ ret' = Unbound
    /\ pc' = "l15"
    /\ UNCHANGED <<defined, locals, result, stdout, calls>>

\* Line 25, the call: subtract(a, b)
L25_call ==
    /\ pc = "l25"
    /\ args' = [a |-> locals.a, b |-> locals.b]
    /\ fn' = "subtract"
    /\ retTo' = "l25"
    /\ ret' = Unbound
    /\ pc' = "l15"
    /\ UNCHANGED <<defined, locals, result, stdout, calls>>

\* Line 25, the assignment: d = <returned value>
L25_assign ==
    /\ pc = "l25_ret"
    /\ locals' = [locals EXCEPT !.d = ret]
    /\ pc' = "l26"
    /\ UNCHANGED <<defined, args, fn, retTo, ret, result, stdout, calls>>

\* Line 26: print(f"Sum: {c}, Difference: {d}"), then the function falls off
\* its end: it returns None and its frame is dropped.
L26 ==
    /\ pc = "l26"
    /\ stdout' = print(stdout, Format(locals.c, locals.d))
    /\ result' = PyNone
    /\ locals' = NoLocals
    /\ pc' = "idle"
    /\ UNCHANGED <<defined, args, fn, retTo, ret, calls>>

\* The statements that run inside a call, of do_some_math or of a helper.
Step ==
    \/ Return_sum
    \/ Return_subtract
    \/ L22
    \/ L23
    \/ L24_call
    \/ L24_assign
    \/ L25_call
    \/ L25_assign
    \/ L26

Next ==
    \/ LoadModule
    \/ \E p, q \in Floats : Call_sum(p, q)
    \/ \E p, q \in Floats : Call_subtract(p, q)
    \/ Call_do_some_math
    \/ Step

Spec == Init /\ [][Next]_vars

\* The interpreter is synchronous and single-threaded: a statement that can
\* run does run.
FairSpec == Spec /\ WF_vars(Step)

-----------------------------------------------------------------------------
(* Properties *)

\* The values 3.0 and -1.0.
Three == Fin(0, 3 * Pow2(FracBits))
MinusOne == Fin(1, Pow2(FracBits))

\* Control is inside a call of do_some_math (its own lines, or a helper it called).
InDoSomeMath ==
    \/ pc \in {"l22", "l23", "l24", "l24_ret", "l25", "l25_ret", "l26"}
    \/ pc \in {"l8", "l15"} /\ retTo # "idle"

\* C1: do_some_math() writes exactly the line "Sum: 3.0, Difference: -1.0":
\* every line on standard output is that text, sum first and difference
\* second, and there is never more than one line per call.
C1_OutputLine ==
    /\ \A i \in 1..Len(stdout) : stdout[i] = "Sum: 3.0, Difference: -1.0"
    /\ Len(stdout) <= calls

\* A call of do_some_math has completed and written its line.
C1_Witness == pc = "idle" /\ calls >= 1 /\ Len(stdout) = calls

\* C2: for every pair of inputs, sum(a, b) returns exactly a + b: the value
\* line 8 returns is the float sum of the frame's two arguments.
C2_SumIsAddition == [][pc = "l8" => ret' = FAdd(args.a, args.b)]_vars

\* A direct call of sum has returned -1.0 (not a value do_some_math produces
\* from sum).
C2_Witness == pc = "idle" /\ fn = "sum" /\ retTo = "idle" /\ ret = MinusOne

\* C3: for every pair of inputs, subtract(a, b) returns exactly a - b, with a
\* the minuend and b the subtrahend.
C3_SubtractIsDifference == [][pc = "l15" => ret' = FSub(args.a, args.b)]_vars

\* A direct call of subtract has returned 3.0.
C3_Witness == pc = "idle" /\ fn = "subtract" /\ retTo = "idle" /\ ret = Three

\* C4 as stated: for every pair of inputs, sum(a, b) == sum(b, a).
C4_Original == [][pc = "l8" => PyEq(ret', sum(args.b, args.a))]_vars

\* C4 as amended: for every pair of float inputs whose sum is not NaN (every
\* pair of finite floats is such a pair), sum(a, b) == sum(b, a).
C4_SumCommutes ==
    [][pc = "l8" /\ ret'.k # "nan" => PyEq(ret', sum(args.b, args.a))]_vars

\* A direct call of sum has overflowed to +inf: a non-NaN sum that was rounded.
C4_Witness == pc = "idle" /\ fn = "sum" /\ retTo = "idle" /\ ret = Inf(0)

\* C5 as stated: for every pair of inputs, subtract(a, b) == -subtract(b, a),
\* and subtract(a, a) == 0 for every a.
C5_Original ==
    [][pc = "l15" =>
        /\ PyEq(ret', Neg(subtract(args.b, args.a)))
        /\ (args.a = args.b => PyEq(ret', Fin(0, 0)))]_vars

\* C5 as amended: for every pair of float inputs whose difference is not NaN
\* (every pair of finite floats is such a pair), subtract(a, b) ==
\* -subtract(b, a); in particular subtract(a, a) == 0 for every finite a.
C5_SubtractAntiSymmetric ==
    [][pc = "l15" /\ ret'.k # "nan" =>
        /\ PyEq(ret', Neg(subtract(args.b, args.a)))
        /\ (args.a = args.b => IsFinite(args.a) /\ PyEq(ret', Fin(0, 0)))]_vars

\* A direct call of subtract has returned a zero.
C5_Witness ==
    pc = "idle" /\ fn = "subtract" /\ retTo = "idle" /\ ret.k = "fin" /\ ret.m = 0

\* C6: each call of do_some_math() terminates, returns no value (None) and
\* appends exactly one line; after n completed calls the output holds n
\* lines, all identical; no statement reads an unbound local (no error).
C6_Safety ==
    /\ pc \in {"start", "idle", "l8", "l15", "l22", "l23", "l24", "l24_ret",
               "l25", "l25_ret", "l26"}
    /\ (pc = "idle" => Len(stdout) = calls)
    /\ (pc = "idle" /\ calls > 0 => result = PyNone)
    /\ (InDoSomeMath => Len(stdout) = calls - 1 /\ result = Unbound)
    /\ \A i, j \in 1..Len(stdout) : stdout[i] = stdout[j]
    /\ (pc \in {"l24", "l25"} => locals.a \in Floats /\ locals.b \in Floats)
    /\ (pc \in {"l8", "l15"} => args.a \in Floats /\ args.b \in Floats)
    /\ (pc \in {"l24_ret", "l25_ret"} => ret \in Floats)
    /\ (pc = "l26" => locals.c \in Floats /\ locals.d \in Floats)

\* C6: the safety part holds in every state, and every call of do_some_math
\* that has started returns to its caller.
C6_OneLinePerCall == [](C6_Safety) /\ [](InDoSomeMath => <>(pc = "idle"))

\* Two calls have completed and two lines are on standard output.
C6_Witness == pc = "idle" /\ calls = 2 /\ Len(stdout) = 2 /\ result = PyNone

\* C7: sum and subtract have no side effects: entering and leaving either
\* function leaves standard output and all state outside the call unchanged,
\* and the value returned is determined by the two arguments alone.
C7_NoSideEffects ==
    [][/\ (pc' \in {"l8", "l15"} \/ pc \in {"l8", "l15"} =>
              UNCHANGED <<stdout, defined, locals, result, calls>>)
       /\ (pc = "l8" => ret' = FAdd(args.a, args.b))
       /\ (pc = "l15" => ret' = FSub(args.a, args.b))]_vars

\* A direct call of subtract made after do_some_math printed has returned,
\* and the output still holds the one line.
C7_Witness ==
    /\ pc = "idle" /\ fn = "subtract" /\ retTo = "idle" /\ ret \in Floats
    /\ calls = 1 /\ Len(stdout) = 1

\* C8: inside do_some_math, sum(a, b) runs first with (1.0, 2.0), subtract(a, b)
\* second with the same (1.0, 2.0) once c is bound, c and d receive the
\* values those calls returned, and the only write to standard output is at
\* line 26, after both, of the line formatted from c and d.
C8_Order ==
    [][/\ (pc' = "l8" /\ retTo' = "l24" =>
              /\ args' = [a |-> One, b |-> Two]
              /\ locals'.c = Unbound /\ locals'.d = Unbound)
       /\ (pc' = "l15" /\ retTo' = "l25" =>
              /\ args' = [a |-> One, b |-> Two]
              /\ locals'.c \in Floats /\ locals'.d = Unbound)
       /\ (pc = "l24_ret" => fn = "sum" /\ locals'.c = ret)
       /\ (pc = "l25_ret" => fn = "subtract" /\ locals'.d = ret)
       /\ (stdout' # stdout =>
              /\ pc = "l26"
              /\ locals.c \in Floats /\ locals.d \in Floats
              /\ stdout' = Append(stdout, Format(locals.c, locals.d)))]_vars

\* Control is at the print with both results computed.
C8_Witness == pc = "l26" /\ locals.c = Three /\ locals.d = MinusOne

\* C9: loading the module writes nothing: its top level binds os, sum,
\* subtract and do_some_math and calls nothing, so while no caller has invoked
\* do_some_math the output is empty and control is not inside do_some_math.
C9_LoadIsSilent ==
    /\ (pc # "start" => defined = ModuleNames)
    /\ (calls = 0 => stdout = <<>> /\ ~InDoSomeMath)

\* The module is loaded, a helper has been called, do_some_math has not.
C9_Witness == pc = "idle" /\ calls = 0 /\ fn = "sum" /\ ret \in Floats /\ stdout = <<>>

====
